---- MODULE Spec2Model ----
(***************************************************************************)
(* A model of the deduplicating filesystem of licentaDedup: the rolling    *)
(* hash chunker (chunker.py), the chunk store (storage.py), the FUSE       *)
(* operations create / write / read / unlink (main.py) and the garbage     *)
(* collector (garbageCollector.py).                                        *)
(*                                                                         *)
(* Python indexes from 0, TLA+ sequences from 1: data[i] of the source is  *)
(* At(data, i) here.  A 64 bit hash value is a tuple of 8 bytes, least     *)
(* significant byte first, so that no number leaves the integer range.     *)
(***************************************************************************)
EXTENDS Integers, Sequences, FiniteSets, TLC

VARIABLES
  local_storage,        \* Chunker.local_storage, per thread
  fs_file_chunks,       \* FilesystemDedup.file_chunks: path -> manifest
  file_locks,           \* FilesystemDedup.file_locks: path -> holder (0: free)
  file_chunks,          \* ChunkStorage.file_chunks: path -> manifest
  chunk_metadata,       \* ChunkStorage.chunk_metadata: digest -> (container, offset, length)
  containers,           \* .dedup_store/*.container: name -> bytes
  io_queue,             \* ChunkStorage.io_queue: the dumps scheduled, oldest first
  file_chunks_json,     \* .dedup_store/file_chunks.json
  chunk_metadata_json,  \* .dedup_store/chunk_metadata.json
  temp_metadata_json,   \* .dedup_store/temp_metadata.json
  root_files,           \* the pass-through files under the root
  th,                   \* per thread: the operation in progress and its locals
  gc,                   \* the collector: its position and its locals
  last,                 \* the operation that ended in the last step, and its result
  nwrites, ngc,         \* writes and creates, and collection cycles, started so far
  calls,                \* per thread: the direct chunker calls made, oldest first
  _stop_event,          \* GarbageCollector._stop_event: set or not
  run                   \* the position of the thread in GarbageCollector.run

vars == <<local_storage, fs_file_chunks, file_locks, file_chunks, chunk_metadata,
          containers, io_queue, file_chunks_json, chunk_metadata_json, temp_metadata_json,
          root_files, th, gc, last, nwrites, ngc, calls, _stop_event, run>>

Min(a, b) == IF a < b THEN a ELSE b
Max(a, b) == IF a > b THEN a ELSE b
At(data, i) == data[i + 1]
\* data[lo:hi] of Python for 0 <= lo and 0 <= hi
Slice(data, lo, hi) == SubSeq(data, lo + 1, Min(hi, Len(data)))
\* bytes([b]) * n
Rep(b, n) == SubSeq([i \in 1..n |-> b], 1, n)
\* a dict as a function: d[k] = v
Put(d, k, v) == [x \in (DOMAIN d) \cup {k} |-> IF x = k THEN v ELSE d[x]]
Del(d, k) == [x \in (DOMAIN d) \ {k} |-> d[x]]
EmptyDict == [x \in {} |-> 0]
\* what the last step returned, if it ended an operation: for a write, size is the
\* value returned and existing_chunks the manifest it found
NoResult ==
  [op |-> "none", path |-> <<>>, size |-> 0, offset |-> 0, status |-> "", data |-> <<>>,
   existing_chunks |-> <<>>]
Result(op, path, size, offset, status, data, existing_chunks) ==
  [op |-> op, path |-> path, size |-> size, offset |-> offset, status |-> status,
   data |-> data, existing_chunks |-> existing_chunks]

(***************************************************************************)
(* chunker.py                                                              *)
(***************************************************************************)
WINDOW_SIZE == 48
MAX_CHUNK_SIZE == 16384
MIN_CHUNK_SIZE == 20

\* x ^ y for 0 <= x, y < 16 is XorNibble[x + 1][y + 1]
XorNibble ==
  <<<<0, 1, 2, 3, 4, 5, 6, 7, 8, 9, 10, 11, 12, 13, 14, 15>>,
    <<1, 0, 3, 2, 5, 4, 7, 6, 9, 8, 11, 10, 13, 12, 15, 14>>,
    <<2, 3, 0, 1, 6, 7, 4, 5, 10, 11, 8, 9, 14, 15, 12, 13>>,
    <<3, 2, 1, 0, 7, 6, 5, 4, 11, 10, 9, 8, 15, 14, 13, 12>>,
    <<4, 5, 6, 7, 0, 1, 2, 3, 12, 13, 14, 15, 8, 9, 10, 11>>,
    <<5, 4, 7, 6, 1, 0, 3, 2, 13, 12, 15, 14, 9, 8, 11, 10>>,
    <<6, 7, 4, 5, 2, 3, 0, 1, 14, 15, 12, 13, 10, 11, 8, 9>>,
    <<7, 6, 5, 4, 3, 2, 1, 0, 15, 14, 13, 12, 11, 10, 9, 8>>,
    <<8, 9, 10, 11, 12, 13, 14, 15, 0, 1, 2, 3, 4, 5, 6, 7>>,
    <<9, 8, 11, 10, 13, 12, 15, 14, 1, 0, 3, 2, 5, 4, 7, 6>>,
    <<10, 11, 8, 9, 14, 15, 12, 13, 2, 3, 0, 1, 6, 7, 4, 5>>,
    <<11, 10, 9, 8, 15, 14, 13, 12, 3, 2, 1, 0, 7, 6, 5, 4>>,
    <<12, 13, 14, 15, 8, 9, 10, 11, 4, 5, 6, 7, 0, 1, 2, 3>>,
    <<13, 12, 15, 14, 9, 8, 11, 10, 5, 4, 7, 6, 1, 0, 3, 2>>,
    <<14, 15, 12, 13, 10, 11, 8, 9, 6, 7, 4, 5, 2, 3, 0, 1>>,
    <<15, 14, 13, 12, 11, 10, 9, 8, 7, 6, 5, 4, 3, 2, 1, 0>>>>
\* x ^ y on bytes
BitXor(x, y) ==
  XorNibble[(x % 16) + 1][(y % 16) + 1] + 16 * XorNibble[(x \div 16) + 1][(y \div 16) + 1]

Zero64 == <<0, 0, 0, 0, 0, 0, 0, 0>>
Xor64(a, b) ==
  <<BitXor(a[1], b[1]), BitXor(a[2], b[2]), BitXor(a[3], b[3]), BitXor(a[4], b[4]),
    BitXor(a[5], b[5]), BitXor(a[6], b[6]), BitXor(a[7], b[7]), BitXor(a[8], b[8])>>
\* the bit that byte k receives from byte k + 1 in a >> 1
CarryIn(a, k) == IF k < 8 THEN (a[k + 1] % 2) * 128 ELSE 0
Shr1(a) ==
  <<(a[1] \div 2) + CarryIn(a, 1), (a[2] \div 2) + CarryIn(a, 2),
    (a[3] \div 2) + CarryIn(a, 3), (a[4] \div 2) + CarryIn(a, 4),
    (a[5] \div 2) + CarryIn(a, 5), (a[6] \div 2) + CarryIn(a, 6),
    (a[7] \div 2) + CarryIn(a, 7), (a[8] \div 2) + CarryIn(a, 8)>>

\* 0x3DA3358B4DC173
POLYNOMIAL == <<115, 193, 77, 139, 53, 163, 61, 0>>
\* (h & TARGET_MASK) == 0 with TARGET_MASK = 0xFFF
TARGET_MASK_Clear(h) == h[1] = 0 /\ h[2] % 16 = 0

\* one pass of "for _ in range(8)"
TableRound(hash_val) ==
  IF hash_val[1] % 2 = 1 THEN Xor64(Shr1(hash_val), POLYNOMIAL) ELSE Shr1(hash_val)
\* table[i]: the 8 passes from hash_val = i
TableEntry(i) ==
  TableRound(TableRound(TableRound(TableRound(TableRound(TableRound(TableRound(TableRound(
    <<i, 0, 0, 0, 0, 0, 0, 0>>))))))))
\* the 256 entries in order; table[i] of the source is At(_precompute_table, i)
_precompute_table == SubSeq([i \in 1..256 |-> TableEntry(i - 1)], 1, 256)
\* Chunker.table, set once by __init__
table == _precompute_table

\* ((h << 8) & 0xFFFFFFFFFFFFFFFF) ^ tb ^ td, byte by byte
RollHash(h, tb, td) ==
  <<BitXor(tb[1], td[1]),
    BitXor(BitXor(h[1], tb[2]), td[2]), BitXor(BitXor(h[2], tb[3]), td[3]),
    BitXor(BitXor(h[3], tb[4]), td[4]), BitXor(BitXor(h[4], tb[5]), td[5]),
    BitXor(BitXor(h[5], tb[6]), td[6]), BitXor(BitXor(h[6], tb[7]), td[7]),
    BitXor(BitXor(h[7], tb[8]), td[8])>>

\* the threading.local() of a thread that has not used the chunker yet
NoLocal == [has_window |-> FALSE, window |-> <<>>, hash |-> Zero64, window_pos |-> 0]
_init_thread_local(ls) ==
  IF ~ls.has_window
  THEN [has_window |-> TRUE, window |-> Rep(0, WINDOW_SIZE), hash |-> Zero64, window_pos |-> 0]
  ELSE ls

UpdateWindow(ls, byte, dropped_byte) ==
  [has_window |-> TRUE,
   window |-> SubSeq(ls.window, 1, ls.window_pos) \o <<byte>>
              \o SubSeq(ls.window, ls.window_pos + 2, WINDOW_SIZE),
   window_pos |-> (ls.window_pos + 1) % WINDOW_SIZE,
   hash |-> RollHash(ls.hash, At(table, byte), At(table, dropped_byte))]
UpdateInited(ls, byte) == UpdateWindow(ls, byte, At(ls.window, ls.window_pos))
_update_hash(ls, byte) == UpdateInited(_init_thread_local(ls), byte)

\* One pass of "for i in range(window_fill)" and of "while i < end".  st.ret >= 0
\* once determine_chunk_size has returned.
FillStep(st, data, start, window_fill) ==
  IF st.i < window_fill
  THEN [st EXCEPT !.ls = _update_hash(st.ls, At(data, start + st.i)), !.i = st.i + 1]
  ELSE st
ScanTest(st, ls1, start) ==
  IF TARGET_MASK_Clear(ls1.hash)
  THEN [st EXCEPT !.ls = ls1, !.ret = st.i - start]
  ELSE [st EXCEPT !.ls = ls1, !.i = st.i + 1]
\* ScanStep with a forced cut one byte past end
ScanStepPastEnd(st, data, start, end) ==
  IF st.ret >= 0 THEN st
  ELSE IF st.i < end
       THEN ScanTest(st, _update_hash(st.ls, At(data, st.i)), start)
       ELSE [st EXCEPT !.ret = end - start + 1]
ScanStep(st, data, start, end) ==
  IF st.ret >= 0 THEN st
  ELSE IF st.i < end
       THEN ScanTest(st, _update_hash(st.ls, At(data, st.i)), start)
       ELSE [st EXCEPT !.ret = end - start]
\* n passes of a loop, evaluated by halving n (a loop runs up to MAX_CHUNK_SIZE times)
RECURSIVE FillLoop(_, _, _, _, _)
FillRest(half, data, start, window_fill, n) ==
  IF half.i >= window_fill THEN half ELSE FillLoop(half, data, start, window_fill, n)
FillLoop(st, data, start, window_fill, n) ==
  IF n <= 0 THEN st
  ELSE IF n = 1 THEN FillStep(st, data, start, window_fill)
  ELSE FillRest(FillLoop(st, data, start, window_fill, n \div 2),
                data, start, window_fill, n - (n \div 2))
RECURSIVE ScanLoop(_, _, _, _, _)
ScanRest(half, data, start, end, n) ==
  IF half.ret >= 0 THEN half ELSE ScanLoop(half, data, start, end, n)
ScanLoop(st, data, start, end, n) ==
  IF n <= 1 THEN ScanStep(st, data, start, end)
  ELSE ScanRest(ScanLoop(st, data, start, end, n \div 2), data, start, end, n - (n \div 2))

ScanFrom(filled, data, start, end, first) ==
  ScanLoop([ls |-> filled.ls, i |-> first, ret |-> -1], data, start, end,
           Max(end - first, 0) + 1)
\* [ret |-> the chunk size returned, ls |-> the thread's rolling state afterwards]
determine_chunk_size(ls, data, start) ==
  LET end == Min(start + MAX_CHUNK_SIZE, Len(data))
      window_fill == Min(WINDOW_SIZE, Len(data) - start)
  IN ScanFrom(FillLoop([ls |-> _init_thread_local(ls), i |-> 0, ret |-> -1],
                       data, start, window_fill, window_fill),
              data, start, end, start + Max(window_fill, MIN_CHUNK_SIZE))

\* The chunking loop of FilesystemDedup.write: the chunks of data from start on,
\* appended to futures, and the rolling state of the calling thread afterwards.
RECURSIVE ChunkLoop(_, _, _, _)
ChunkTake(r, data, start, futures) ==
  ChunkLoop(r.ls, data, start + r.ret, Append(futures, Slice(data, start, start + r.ret)))
ChunkLoop(ls, data, start, futures) ==
  IF start < Len(data)
  THEN ChunkTake(determine_chunk_size(ls, data, start), data, start, futures)
  ELSE [chunks |-> futures, ls |-> ls]

(***************************************************************************)
(* The threads, paths and buffers of the model                             *)
(***************************************************************************)
Threads == {1, 2}
\* calls of determine_chunk_size, and runs of the chunking loop, made in all
MaxCalls == 3
\* bytes of the long buffer beyond MAX_CHUNK_SIZE
LongExtra == 10

\* the buffers handed to the chunker directly
ChunkerBuffer(k) ==
  CASE k = 1 -> Rep(1, 1024)
    [] k = 2 -> Rep(0, 50)
    [] k = 3 -> Rep(1, 100)
    [] k = 4 -> SubSeq([i \in 1..(MAX_CHUNK_SIZE + LongExtra) |-> (i - 1) % 7],
                       1, MAX_CHUNK_SIZE + LongExtra)
\* <<buffer, start>> of the calls of determine_chunk_size, and the buffers looped over
CallInputs == {<<1, 0>>, <<1, 1>>, <<2, 0>>, <<2, 31>>, <<4, 0>>}
LoopInputs == {3, 4}
TotalCalls == Len(calls[1]) + Len(calls[2])
\* a buffer longer than MAX_CHUNK_SIZE goes to a chunker that no thread has used yet
MayCall(k) ==
  TotalCalls < MaxCalls /\ (Len(ChunkerBuffer(k)) > MAX_CHUNK_SIZE => TotalCalls = 0)

\* paths are sequences of characters; the last two differ only in "/" against "_"
PathF == <<"/", "f">>
PathDG == <<"/", "d", "/", "g">>
PathD_G == <<"/", "d", "_", "g">>
Paths == {PathF, PathDG, PathD_G}
\* the buffers of the write requests, all written at offset 0
Buffers == {<<1, 2>>, <<3>>}
\* writes and creates, and collection cycles, started in one run
MaxWrites == 2
MaxGC == 2
\* an operation that schedules a dump starts while fewer dumps than this are waiting
MaxQueue == 1

(***************************************************************************)
(* storage.py                                                              *)
(***************************************************************************)
\* path.strip("/")
RECURSIVE LStrip(_)
LStrip(s) == IF s # <<>> /\ Head(s) = "/" THEN LStrip(Tail(s)) ELSE s
RECURSIVE RStrip(_)
RStrip(s) == IF s # <<>> /\ s[Len(s)] = "/" THEN RStrip(SubSeq(s, 1, Len(s) - 1)) ELSE s
Strip(s) == RStrip(LStrip(s))
\* s.replace("/", "_")
Replace(s) == SubSeq([i \in 1..Len(s) |-> IF s[i] = "/" THEN "_" ELSE s[i]], 1, Len(s))
\* path.strip("/").replace("/", "_") + ".container"
ContainerName(path) == Replace(Strip(path)) \o <<".container">>
\* filename.endswith(".container")
IsContainerFile(name) == name # <<>> /\ name[Len(name)] = ".container"

\* hashlib.sha256(chunk).hexdigest(): distinct chunks have distinct digests
_hash_chunk(chunk) == [sha256 |-> chunk]

\* os.path.getsize(full_path) if os.path.exists(full_path) else 0
get_container_size(container_name) ==
  IF container_name \in DOMAIN containers THEN Len(containers[container_name]) ELSE 0
chunk_exists(chunk_hash) == chunk_hash \in DOMAIN chunk_metadata
\* self.chunk_metadata.get(chunk_hash): has is FALSE for None
NoMeta == [has |-> FALSE, container |-> <<>>, offset |-> 0, length |-> 0]
Meta(container, offset, length) ==
  [has |-> TRUE, container |-> container, offset |-> offset, length |-> length]
get_chunk_metadata(chunk_hash) ==
  IF chunk_hash \in DOMAIN chunk_metadata THEN chunk_metadata[chunk_hash] ELSE NoMeta

\* f.seek(offset); f.write(data) on the bytes old of a file: a gap is zero filled
SeekWrite(old, offset, data) ==
  LET n == Max(Len(old), offset + Len(data)) IN
  SubSeq([i \in 1..n |-> IF i > offset /\ i <= offset + Len(data) THEN data[i - offset]
                         ELSE IF i <= Len(old) THEN old[i] ELSE 0], 1, n)
\* the container files after write_container(path, data, offset); mode 'wb' starts
\* from an empty file
write_container(path, data, offset) ==
  LET container_name == ContainerName(path)
      old == IF container_name \in DOMAIN containers THEN containers[container_name] ELSE <<>>
  IN Put(containers, container_name, SeekWrite(old, offset, data))
\* f.seek(offset); f.read(size) on the bytes of a file; a negative size reads to the end
SeekRead(bytes, offset, size) ==
  IF size < 0 THEN Slice(bytes, offset, Len(bytes)) ELSE Slice(bytes, offset, offset + size)

\* the index after write_chunk_metadata(new_metadata); new_metadata is the staged
\* dict as a sequence of [hash, path, offset, size], in insertion order
RECURSIVE DictUpdate(_, _)
DictUpdate(meta, staged) ==
  IF staged = <<>> THEN meta
  ELSE DictUpdate(Put(meta, Head(staged).hash,
                      Meta(ContainerName(Head(staged).path), Head(staged).offset,
                           Head(staged).size)),
                  Tail(staged))
write_chunk_metadata(new_metadata) == DictUpdate(chunk_metadata, new_metadata)
\* the manifests after store_file_chunks(path, chunks)
store_file_chunks(path, chunks) == Put(file_chunks, path, chunks)
\* the queue after self.io_queue.put(target)
_schedule_metadata_dump(target) == Append(io_queue, target)

\* a JSON file of the store: absent, empty (not parseable), or holding a dict
AbsentFile == [exists |-> FALSE, parses |-> FALSE, value |-> EmptyDict]
EmptyFile == [exists |-> TRUE, parses |-> FALSE, value |-> EmptyDict]
JsonFile(value) == [exists |-> TRUE, parses |-> TRUE, value |-> value]
\* the file after _atomic_write(path, data): json.dump to path.tmp, os.replace
_atomic_write(data) == JsonFile(data)
\* one pass of the loop of the writer thread: take a target, dump its dict
_background_writer ==
  /\ io_queue # <<>>
  /\ io_queue' = Tail(io_queue)
  /\ IF Head(io_queue) = "file_chunks"
     THEN /\ file_chunks_json' = _atomic_write(file_chunks)
          /\ UNCHANGED chunk_metadata_json
     ELSE /\ chunk_metadata_json' = _atomic_write(chunk_metadata)
          /\ UNCHANGED file_chunks_json
  /\ last' = NoResult
  /\ UNCHANGED <<local_storage, fs_file_chunks, file_locks,
                 file_chunks, chunk_metadata, containers,
                 temp_metadata_json, root_files, th, gc, nwrites, ngc,
                 calls, _stop_event, run>>

(***************************************************************************)
(* main.py                                                                 *)
(***************************************************************************)
\* a manifest entry is <<chunk_hash, length>>
Idle ==
  [pc |-> "idle", path |-> <<>>, data |-> <<>>, offset |-> 0, existing_chunks |-> <<>>,
   chunk_index |-> 0, new_chunks |-> <<>>, chunk_metadata |-> <<>>,
   container_buffer |-> <<>>, container_offset |-> 0]

\* "Determine where to insert": the chunk_index the loop ends with
RECURSIVE Locate(_, _, _, _)
Locate(existing_chunks, offset, chunk_start, chunk_index) ==
  IF chunk_index < Len(existing_chunks)
     /\ chunk_start + At(existing_chunks, chunk_index)[2] <= offset
  THEN Locate(existing_chunks, offset, chunk_start + At(existing_chunks, chunk_index)[2],
              chunk_index + 1)
  ELSE chunk_index

StagedHashes(staged) == {staged[i].hash : i \in 1..Len(staged)}
\* "for chunk, future in futures": st holds new_chunks, chunk_metadata,
\* container_buffer and current_offset
StageOneAlways(st, path, chunk, chunk_hash) ==
  [new_chunks |-> Append(st.new_chunks, <<chunk_hash, Len(chunk)>>),
   chunk_metadata |-> Append(st.chunk_metadata,
                             [hash |-> chunk_hash, path |-> path,
                              offset |-> st.current_offset, size |-> Len(chunk)]),
   container_buffer |-> st.container_buffer \o chunk,
   current_offset |-> st.current_offset + Len(chunk)]
StageOne(st, path, chunk, chunk_hash) ==
  IF ~chunk_exists(chunk_hash) /\ chunk_hash \notin StagedHashes(st.chunk_metadata)
  THEN [new_chunks |-> Append(st.new_chunks, <<chunk_hash, Len(chunk)>>),
        chunk_metadata |-> Append(st.chunk_metadata,
                                  [hash |-> chunk_hash, path |-> path,
                                   offset |-> st.current_offset, size |-> Len(chunk)]),
        container_buffer |-> st.container_buffer \o chunk,
        current_offset |-> st.current_offset + Len(chunk)]
  ELSE [st EXCEPT !.new_chunks = Append(st.new_chunks, <<chunk_hash, Len(chunk)>>)]
RECURSIVE StageLoop(_, _, _)
\* the staging loop of write; StageOneAlways stages and buffers every piece
StageLoop(st, path, futures) ==
  IF futures = <<>> THEN st
  ELSE StageLoop(StageOne(st, path, Head(futures), _hash_chunk(Head(futures))),
                 path, Tail(futures))

\* lines 114-148 of write: take the lock, locate, chunk, hash and stage
WriteStaged(t, path, data, offset, existing_chunks, chunked, staged) ==
  /\ local_storage' = [local_storage EXCEPT ![t] = chunked.ls]
  /\ th' = [th EXCEPT ![t] =
       [pc |-> IF staged.chunk_metadata # <<>> THEN "write_container" ELSE "write_manifest",
        path |-> path, data |-> data, offset |-> offset,
        existing_chunks |-> existing_chunks,
        chunk_index |-> Locate(existing_chunks, offset, 0, 0),
        new_chunks |-> staged.new_chunks, chunk_metadata |-> staged.chunk_metadata,
        container_buffer |-> staged.container_buffer,
        container_offset |-> get_container_size(ContainerName(path))]]
WriteChunked(t, path, data, offset, existing_chunks, chunked) ==
  WriteStaged(t, path, data, offset, existing_chunks, chunked,
              StageLoop([new_chunks |-> <<>>, chunk_metadata |-> <<>>,
                         container_buffer |-> <<>>,
                         current_offset |-> get_container_size(ContainerName(path))],
                        path, chunked.chunks))
\* the body of write up to the staging loop, entered with the lock of the path
WriteLocked(t, path, data, offset) ==
  /\ nwrites < MaxWrites
  /\ Len(io_queue) < MaxQueue
  /\ nwrites' = nwrites + 1
  /\ file_locks' = [file_locks EXCEPT ![path] = t]
  \* existing_chunks = self.file_chunks[path] on a defaultdict(list)
  /\ fs_file_chunks' = IF path \in DOMAIN fs_file_chunks THEN fs_file_chunks
                       ELSE Put(fs_file_chunks, path, <<>>)
  /\ WriteChunked(t, path, data, offset,
                  IF path \in DOMAIN fs_file_chunks THEN fs_file_chunks[path] ELSE <<>>,
                  ChunkLoop(local_storage[t], data, 0, <<>>))
  /\ last' = NoResult
  /\ UNCHANGED <<file_chunks, chunk_metadata, containers, io_queue,
                 file_chunks_json, chunk_metadata_json,
                 temp_metadata_json, root_files, gc, ngc, calls,
                 _stop_event, run>>
\* "with self.file_locks[path]" finds the lock of the path free (file_locks[path] = 0:
\* the lock is free, or the key is missing and the lock is made and taken at once)
WriteBegin(t, path, data, offset) ==
  /\ th[t].pc = "idle"
  /\ file_locks[path] = 0
  /\ WriteLocked(t, path, data, offset)
\* self.file_locks[path] on the defaultdict(threading.RLock) finds the key missing
\* (file_locks[path] = -1) and calls the factory threading.RLock, a Python
\* function, during which other threads run
WriteNewLock(t, path, data, offset) ==
  /\ th[t].pc = "idle"
  /\ file_locks[path] = -1
  /\ th' = [th EXCEPT ![t] = [Idle EXCEPT !.pc = "new_lock", !.path = path,
                                          !.data = data, !.offset = offset]]
  /\ last' = NoResult
  /\ UNCHANGED <<local_storage, fs_file_chunks, file_locks, file_chunks,
                 chunk_metadata, containers, io_queue, file_chunks_json,
                 chunk_metadata_json, temp_metadata_json, root_files, gc,
                 nwrites, ngc, calls, _stop_event, run>>
\* the factory returns: the new lock is stored under the key, replacing whatever
\* another thread stored meanwhile, and is acquired
WriteBeginNewLock(t) ==
  /\ th[t].pc = "new_lock"
  /\ WriteLocked(t, th[t].path, th[t].data, th[t].offset)

\* self.storage.write_container(path, container_buffer.read(), container_offset)
WriteContainer(t) ==
  /\ th[t].pc = "write_container"
  /\ containers' = write_container(th[t].path, th[t].container_buffer, th[t].container_offset)
  /\ th' = [th EXCEPT ![t].pc = "write_chunk_metadata"]
  /\ last' = NoResult
  /\ UNCHANGED <<local_storage, fs_file_chunks, file_locks,
                 file_chunks, chunk_metadata, io_queue, file_chunks_json,
                 chunk_metadata_json, temp_metadata_json, root_files, gc,
                 nwrites, ngc, calls, _stop_event, run>>

\* a whole write whose write_container raises (open, seek or write fails): the lock
\* was taken, the defaultdict was read, the pieces were chunked and staged; the
\* exception leaves write through the "with", which releases the lock
WriteFailed(t, path, data, offset, existing_chunks, chunked, staged) ==
  /\ staged.chunk_metadata # <<>>
  /\ local_storage' = [local_storage EXCEPT ![t] = chunked.ls]
  /\ last' = Result("write", path, 0, offset, "IOError", data, existing_chunks)
WriteFails(t, path, data, offset) ==
  /\ th[t].pc = "idle"
  /\ file_locks[path] = 0
  /\ nwrites < MaxWrites
  /\ nwrites' = nwrites + 1
  /\ fs_file_chunks' = IF path \in DOMAIN fs_file_chunks THEN fs_file_chunks
                       ELSE Put(fs_file_chunks, path, <<>>)
  /\ \E chunked \in {ChunkLoop(local_storage[t], data, 0, <<>>)} :
       WriteFailed(t, path, data, offset,
                   IF path \in DOMAIN fs_file_chunks THEN fs_file_chunks[path] ELSE <<>>,
                   chunked,
                   StageLoop([new_chunks |-> <<>>, chunk_metadata |-> <<>>,
                              container_buffer |-> <<>>,
                              current_offset |-> get_container_size(ContainerName(path))],
                             path, chunked.chunks))
  /\ UNCHANGED <<file_locks, file_chunks, chunk_metadata, containers, io_queue,
                 file_chunks_json, chunk_metadata_json, temp_metadata_json,
                 root_files, th, gc, ngc, calls, _stop_event, run>>

\* self.storage.write_chunk_metadata(chunk_metadata)
WriteChunkMetadata(t) ==
  /\ th[t].pc = "write_chunk_metadata"
  /\ chunk_metadata' = write_chunk_metadata(th[t].chunk_metadata)
  /\ io_queue' = _schedule_metadata_dump("chunk_metadata")
  /\ th' = [th EXCEPT ![t].pc = "write_manifest"]
  /\ last' = NoResult
  /\ UNCHANGED <<local_storage, fs_file_chunks, file_locks,
                 file_chunks, containers, file_chunks_json,
                 chunk_metadata_json, temp_metadata_json, root_files, gc,
                 nwrites, ngc, calls, _stop_event, run>>

\* a composition that keeps the old chunk at chunk_index
ComposeManifestInsert(existing_chunks, chunk_index, new_chunks) ==
  SubSeq(existing_chunks, 1, chunk_index) \o new_chunks
    \o SubSeq(existing_chunks, chunk_index + 1, Len(existing_chunks))
\* existing_chunks[:chunk_index] + new_chunks + existing_chunks[chunk_index + 1:]
ComposeManifest(existing_chunks, chunk_index, new_chunks) ==
  SubSeq(existing_chunks, 1, chunk_index) \o new_chunks
    \o SubSeq(existing_chunks, chunk_index + 2, Len(existing_chunks))
\* "Update chunk list", store_file_chunks, return len(data) and release the lock
WriteManifest(t) ==
  /\ th[t].pc = "write_manifest"
  /\ fs_file_chunks' = Put(fs_file_chunks, th[t].path,
                           ComposeManifest(th[t].existing_chunks, th[t].chunk_index,
                                           th[t].new_chunks))
  /\ file_chunks' = store_file_chunks(th[t].path,
                                      ComposeManifest(th[t].existing_chunks,
                                                      th[t].chunk_index, th[t].new_chunks))
  /\ io_queue' = _schedule_metadata_dump("file_chunks")
  \* the lock released is the one this thread acquired, which is free for others
  \* only if it is still the one stored under the key
  /\ file_locks' = IF file_locks[th[t].path] = t
                   THEN [file_locks EXCEPT ![th[t].path] = 0] ELSE file_locks
  /\ last' = Result("write", th[t].path, Len(th[t].data), th[t].offset, "ok", th[t].data,
                    th[t].existing_chunks)
  /\ th' = [th EXCEPT ![t] = Idle]
  /\ UNCHANGED <<local_storage, chunk_metadata, containers,
                 file_chunks_json, chunk_metadata_json,
                 temp_metadata_json, root_files, gc, nwrites, ngc, calls,
                 _stop_event, run>>

unlink(t, path) ==
  /\ th[t].pc = "idle"
  /\ file_locks[path] = 0
  /\ Len(io_queue) < MaxQueue
  /\ IF path \in DOMAIN fs_file_chunks
     THEN /\ fs_file_chunks' = Del(fs_file_chunks, path)
          /\ file_chunks' = store_file_chunks(path, <<>>)
          /\ io_queue' = _schedule_metadata_dump("file_chunks")
     ELSE UNCHANGED <<fs_file_chunks, file_chunks, io_queue>>
  /\ root_files' = root_files \ {path}
  /\ last' = NoResult
  /\ UNCHANGED <<local_storage, file_locks, chunk_metadata,
                 containers, file_chunks_json, chunk_metadata_json,
                 temp_metadata_json, th, gc, nwrites, ngc, calls,
                 _stop_event, run>>

create(t, path) ==
  /\ th[t].pc = "idle"
  /\ file_locks[path] = 0
  /\ Len(io_queue) < MaxQueue
  /\ nwrites < MaxWrites
  /\ nwrites' = nwrites + 1
  /\ root_files' = root_files \cup {path}
  /\ fs_file_chunks' = Put(fs_file_chunks, path, <<>>)
  /\ file_chunks' = store_file_chunks(path, <<>>)
  /\ io_queue' = _schedule_metadata_dump("file_chunks")
  /\ last' = NoResult
  /\ UNCHANGED <<local_storage, file_locks, chunk_metadata,
                 containers, file_chunks_json, chunk_metadata_json,
                 temp_metadata_json, th, gc, ngc, calls, _stop_event, run>>

\* the inner "while i < len(chunks)" of read: the i and last_offset it ends with
RECURSIVE GroupLoop(_, _, _)
GroupNext(chunks, i, group_container, meta) ==
  IF ~meta.has THEN [eio |-> TRUE, i |-> i, last_offset |-> 0]
  ELSE IF meta.container # group_container
       THEN [eio |-> FALSE, i |-> i, last_offset |-> meta.offset + meta.length]
       ELSE IF i + 1 >= Len(chunks)
            THEN [eio |-> FALSE, i |-> i + 1, last_offset |-> meta.offset + meta.length]
            ELSE GroupLoop(chunks, i + 1, group_container)
GroupLoop(chunks, i, group_container) ==
  IF i < Len(chunks)
  THEN GroupNext(chunks, i, group_container, get_chunk_metadata(At(chunks, i)[1]))
  ELSE [eio |-> FALSE, i |-> i, last_offset |-> 0]

\* the outer "while i < len(chunks) and len(data) < size" of read;
\* st holds i, data, current_offset and remaining_size
RECURSIVE ReadLoop(_, _, _, _)
ReadBulk(chunks, size, offset, st, g, bulk_data) ==
  ReadLoop(chunks, size, offset,
           [i |-> g.i,
            data |-> st.data \o Slice(bulk_data, 0, Min(Len(bulk_data), st.remaining_size)),
            current_offset |-> st.current_offset,
            remaining_size |-> st.remaining_size - Len(bulk_data)])
ReadGroup(chunks, size, offset, st, current_chunk_meta, g) ==
  IF g.eio THEN [status |-> "EIO", data |-> <<>>]
  ELSE IF current_chunk_meta.container \notin DOMAIN containers
       THEN [status |-> "FileNotFoundError", data |-> <<>>]
       ELSE ReadBulk(chunks, size, offset, st, g,
                     SeekRead(containers[current_chunk_meta.container],
                              current_chunk_meta.offset,
                              g.last_offset - current_chunk_meta.offset))
ReadChunk(chunks, size, offset, st, current_chunk_meta) ==
  IF ~current_chunk_meta.has THEN [status |-> "EIO", data |-> <<>>]
  ELSE ReadGroup(chunks, size, offset, st, current_chunk_meta,
                 GroupLoop(chunks, st.i, current_chunk_meta.container))
ReadLoop(chunks, size, offset, st) ==
  IF st.i < Len(chunks) /\ Len(st.data) < size
  THEN IF st.current_offset + At(chunks, st.i)[2] <= offset
       THEN ReadLoop(chunks, size, offset,
                     [st EXCEPT !.current_offset = st.current_offset + At(chunks, st.i)[2],
                                !.i = st.i + 1])
       ELSE ReadChunk(chunks, size, offset, st, get_chunk_metadata(At(chunks, st.i)[1]))
  ELSE [status |-> "ok", data |-> st.data]
\* read without the "path not in self.file_chunks" test: a missing manifest reads
\* as an empty one
ReadResultNoTest(path, size, offset) ==
  ReadLoop(IF path \in DOMAIN fs_file_chunks THEN fs_file_chunks[path] ELSE <<>>,
           size, offset,
           [i |-> 0, data |-> <<>>, current_offset |-> 0, remaining_size |-> size])
\* [status, data] of read(path, size, offset)
ReadResult(path, size, offset) ==
  IF path \notin DOMAIN fs_file_chunks THEN [status |-> "ENOENT", data |-> <<>>]
  ELSE ReadLoop(fs_file_chunks[path], size, offset,
                [i |-> 0, data |-> <<>>, current_offset |-> 0, remaining_size |-> size])
ReadDone(path, size, offset, r) ==
  last' = Result("read", path, size, offset, r.status, r.data, <<>>)
read(t, path, size, offset) ==
  /\ th[t].pc = "idle"
  /\ file_locks[path] = 0
  /\ ReadDone(path, size, offset, ReadResult(path, size, offset))
  /\ UNCHANGED <<local_storage, fs_file_chunks, file_locks,
                 file_chunks, chunk_metadata, containers, io_queue,
                 file_chunks_json, chunk_metadata_json,
                 temp_metadata_json, root_files, th, gc, nwrites, ngc,
                 calls, _stop_event, run>>

(***************************************************************************)
(* garbageCollector.py                                                     *)
(***************************************************************************)
GCIdle ==
  [pc |-> "idle", container_map |-> EmptyDict, todo |-> {}, container_file |-> <<>>,
   new_container |-> <<>>, new_metadata |-> EmptyDict]

\* MARK: the digests of the manifests that get_all_file_chunks() returns
used_chunks ==
  UNION {{file_chunks[p][i][1] : i \in 1..Len(file_chunks[p])} : p \in DOMAIN file_chunks}
\* container_file -> the (chunk_hash, offset, size) to preserve; "if not meta: continue"
container_map ==
  LET live == {h \in used_chunks : get_chunk_metadata(h).has}
  IN [c \in {chunk_metadata[h].container : h \in live} |->
        {<<h, chunk_metadata[h].offset, chunk_metadata[h].length>> :
           h \in {x \in live : chunk_metadata[x].container = c}}]

\* mark, build container_map, create the empty temp_metadata.json
GCMarkStep ==
  /\ gc.pc = "idle"
  /\ ngc < MaxGC
  /\ ngc' = ngc + 1
  /\ gc' = [GCIdle EXCEPT !.pc = "sweep", !.container_map = container_map,
                          !.todo = DOMAIN container_map]
  /\ temp_metadata_json' = EmptyFile
  /\ last' = NoResult
  /\ UNCHANGED <<local_storage, fs_file_chunks, file_locks,
                 file_chunks, chunk_metadata, containers, io_queue,
                 file_chunks_json, chunk_metadata_json, root_files, th,
                 nwrites, calls>>
\* a cycle begins (in the thread of run or in a caller of trigger, not told apart)
GCMark == GCMarkStep /\ UNCHANGED <<_stop_event, run>>

\* chunks.sort(key=lambda x: x[1]): the list is built from a set, so entries of
\* equal offset come in any order
SortedChunks(chunks) ==
  {s \in [1..Cardinality(chunks) -> chunks] :
     /\ \A i, j \in 1..Cardinality(chunks) : i # j => s[i] # s[j]
     /\ \A i, j \in 1..Cardinality(chunks) : i < j => s[i][2] <= s[j][2]}
\* "for chunk_hash, offset, size in chunks" from the i-th entry on
RECURSIVE CompactLoop(_, _, _, _, _, _, _)
CompactLoop(container_file, f, chunks, n, i, new_container, new_metadata) ==
  IF i > n THEN [new_container |-> new_container, new_metadata |-> new_metadata]
  ELSE CompactLoop(container_file, f, chunks, n, i + 1,
                   new_container \o SeekRead(f, chunks[i][2], chunks[i][3]),
                   Put(new_metadata, chunks[i][1],
                       Meta(container_file, Len(new_container), chunks[i][3])))
GCCompacted(container_file, compacted) ==
  gc' = [gc EXCEPT !.pc = "replace", !.todo = gc.todo \ {container_file},
                   !.container_file = container_file,
                   !.new_container = compacted.new_container,
                   !.new_metadata = compacted.new_metadata]
\* one pass of "for container_file, chunks in container_map.items()" up to the
\* copy of the live chunks
GCCompact(container_file) ==
  /\ gc.pc = "sweep"
  /\ container_file \in gc.todo
  /\ IF container_file \notin DOMAIN containers
     THEN gc' = [gc EXCEPT !.todo = gc.todo \ {container_file}]
     ELSE \E chunks \in SortedChunks(gc.container_map[container_file]) :
            GCCompacted(container_file,
                        CompactLoop(container_file, containers[container_file], chunks,
                                    Cardinality(gc.container_map[container_file]), 1,
                                    <<>>, EmptyDict))
  /\ last' = NoResult
  /\ UNCHANGED <<local_storage, fs_file_chunks, file_locks,
                 file_chunks, chunk_metadata, containers, io_queue,
                 file_chunks_json, chunk_metadata_json,
                 temp_metadata_json, root_files, th, nwrites, ngc, calls,
                 _stop_event, run>>
GCSweep == \E container_file \in gc.todo : GCCompact(container_file)
\* the rest of the pass: replace the container file, overwrite temp_metadata.json
GCReplace ==
  /\ gc.pc = "replace"
  /\ containers' = Put(containers, gc.container_file, gc.new_container)
  /\ temp_metadata_json' = JsonFile(gc.new_metadata)
  /\ gc' = [gc EXCEPT !.pc = "sweep", !.container_file = <<>>, !.new_container = <<>>,
                      !.new_metadata = EmptyDict]
  /\ last' = NoResult
  /\ UNCHANGED <<local_storage, fs_file_chunks, file_locks,
                 file_chunks, chunk_metadata, io_queue, file_chunks_json,
                 chunk_metadata_json, root_files, th, nwrites, ngc, calls,
                 _stop_event, run>>
\* move temp_metadata.json over chunk_metadata.json, remove the unused containers
GCFinishStep ==
  /\ gc.pc = "sweep"
  /\ gc.todo = {}
  /\ chunk_metadata_json' = temp_metadata_json
  /\ temp_metadata_json' = AbsentFile
  /\ containers' = [c \in {x \in DOMAIN containers :
                             x \in DOMAIN gc.container_map \/ ~IsContainerFile(x)} |->
                      containers[c]]
  /\ gc' = GCIdle
  /\ last' = Result("gc", <<>>, 0, 0, "ok", <<>>, <<>>)
  /\ UNCHANGED <<local_storage, fs_file_chunks, file_locks,
                 file_chunks, chunk_metadata, io_queue, file_chunks_json,
                 root_files, th, nwrites, ngc, calls>>
GCFinish == GCFinishStep /\ UNCHANGED <<_stop_event, run>>

\* GarbageCollector.run, stop and trigger.  run is "test" at the while condition,
\* "wait" inside self._stop_event.wait(self.interval), "collect" inside the
\* collect_garbage() that follows the wait, "exited" after the loop
RunFrame ==
  UNCHANGED <<local_storage, fs_file_chunks, file_locks, file_chunks, chunk_metadata,
              containers, io_queue, file_chunks_json, chunk_metadata_json,
              temp_metadata_json, root_files, th, gc, nwrites, ngc, calls>>
\* while not self._stop_event.is_set()
RunTest ==
  /\ run = "test"
  /\ run' = IF _stop_event THEN "exited" ELSE "wait"
  /\ last' = NoResult
  /\ UNCHANGED _stop_event
  /\ RunFrame
\* self._stop_event.wait(self.interval) returns, after the interval or because the
\* event is set, and collect_garbage() is entered (self.lock is free)
RunCollect ==
  /\ run = "wait"
  /\ run' = "collect"
  /\ GCMarkStep
  /\ UNCHANGED _stop_event
\* the collect_garbage() of run returns; back to the while condition
RunCollected ==
  /\ run = "collect"
  /\ run' = "test"
  /\ GCFinishStep
  /\ UNCHANGED _stop_event
\* stop(): self._stop_event.set()
stop ==
  /\ ~_stop_event
  /\ _stop_event' = TRUE
  /\ last' = Result("stop", <<>>, 0, 0, "ok", <<>>, <<>>)
  /\ UNCHANGED run
  /\ RunFrame
\* trigger(): the caller enters collect_garbage() (self.lock is free)
TriggerCollect ==
  /\ run # "collect"
  /\ GCMarkStep
  /\ UNCHANGED <<_stop_event, run>>
\* trigger(): collect_garbage() returns, then self._stop_event.clear()
TriggerCollected ==
  /\ run # "collect"
  /\ GCFinishStep
  /\ _stop_event' = FALSE
  /\ UNCHANGED run

(***************************************************************************)
(* Start-up: ChunkStorage.__init__ and FilesystemDedup.__init__            *)
(***************************************************************************)
\* the dict a load leaves in memory: the parsed file, or {} when the file is absent
\* or json.load raises (a list parsed from JSON is used as the tuple dumped)
_load_file_chunks == IF file_chunks_json.exists /\ file_chunks_json.parses
                     THEN file_chunks_json.value ELSE EmptyDict
_load_chunk_metadata == IF chunk_metadata_json.exists /\ chunk_metadata_json.parses
                        THEN chunk_metadata_json.value ELSE EmptyDict
\* the process ends with no operation and no collection in progress and the store is
\* mounted again: a new Chunker, an empty queue (the writer is a daemon thread), the
\* dicts loaded from the JSON files, no lock held, the manifests copied from the store
__init__ ==
  /\ \A t \in Threads : th[t].pc = "idle"
  /\ gc.pc = "idle"
  /\ local_storage' = [t \in Threads |-> NoLocal]
  /\ file_chunks' = _load_file_chunks
  /\ chunk_metadata' = _load_chunk_metadata
  /\ io_queue' = <<>>
  /\ fs_file_chunks' = _load_file_chunks
  /\ file_locks' = [p \in Paths |-> 0]
  /\ last' = Result("init", <<>>, 0, 0, "ok", <<>>, <<>>)
  /\ UNCHANGED <<containers, file_chunks_json, chunk_metadata_json,
                 temp_metadata_json, root_files, th, gc, nwrites, ngc, calls,
                 _stop_event, run>>

(***************************************************************************)
(* Direct use of the chunker                                               *)
(***************************************************************************)
\* a thread calls determine_chunk_size(ChunkerBuffer(k), start)
CallDone(t, k, start, r) ==
  /\ local_storage' = [local_storage EXCEPT ![t] = r.ls]
  /\ calls' = [calls EXCEPT ![t] =
       Append(calls[t], [op |-> "call", buffer |-> k, start |-> start,
                         len |-> Len(ChunkerBuffer(k)), ret |-> r.ret,
                         sizes |-> <<>>, joined |-> TRUE])]
ChunkerCall(t, k, start) ==
  /\ MayCall(k)
  /\ CallDone(t, k, start, determine_chunk_size(local_storage[t], ChunkerBuffer(k), start))
  /\ UNCHANGED <<fs_file_chunks, file_locks, file_chunks,
                 chunk_metadata, containers, io_queue, file_chunks_json,
                 chunk_metadata_json, temp_metadata_json, root_files, th,
                 gc, last, nwrites, ngc, _stop_event, run>>

RECURSIVE Join(_)
Join(pieces) == IF pieces = <<>> THEN <<>> ELSE Head(pieces) \o Join(Tail(pieces))
\* a thread runs the chunking loop of write over ChunkerBuffer(k): the sizes of
\* the pieces, and whether the pieces joined in order are the buffer
LoopDone(t, k, r) ==
  /\ local_storage' = [local_storage EXCEPT ![t] = r.ls]
  /\ calls' = [calls EXCEPT ![t] =
       Append(calls[t], [op |-> "loop", buffer |-> k, start |-> 0,
                         len |-> Len(ChunkerBuffer(k)), ret |-> 0,
                         sizes |-> SubSeq([i \in 1..Len(r.chunks) |-> Len(r.chunks[i])],
                                          1, Len(r.chunks)),
                         joined |-> Join(r.chunks) = ChunkerBuffer(k)])]
ChunkerLoop(t, k) ==
  /\ MayCall(k)
  /\ LoopDone(t, k, ChunkLoop(local_storage[t], ChunkerBuffer(k), 0, <<>>))
  /\ UNCHANGED <<fs_file_chunks, file_locks, file_chunks,
                 chunk_metadata, containers, io_queue, file_chunks_json,
                 chunk_metadata_json, temp_metadata_json, root_files, th,
                 gc, last, nwrites, ngc, _stop_event, run>>

(***************************************************************************)
(* The specifications                                                      *)
(***************************************************************************)
\* a fresh store under an empty root: no manifests, no index, no containers
Init ==
  /\ local_storage = [t \in Threads |-> NoLocal]
  /\ fs_file_chunks = EmptyDict
  /\ file_locks = [p \in Paths |-> 0]
  /\ file_chunks = EmptyDict
  /\ chunk_metadata = EmptyDict
  /\ containers = EmptyDict
  /\ io_queue = <<>>
  /\ file_chunks_json = AbsentFile
  /\ chunk_metadata_json = AbsentFile
  /\ temp_metadata_json = AbsentFile
  /\ root_files = {}
  /\ th = [t \in Threads |-> Idle]
  /\ gc = GCIdle
  /\ last = NoResult
  /\ nwrites = 0
  /\ ngc = 0
  /\ calls = [t \in Threads |-> <<>>]
  /\ _stop_event = FALSE
  /\ run = "test"

\* create, write and unlink under two threads and the collector, on short buffers
Next ==
  \/ \E t \in Threads, path \in Paths : create(t, path)
  \/ \E t \in Threads, path \in Paths : unlink(t, path)
  \/ \E t \in Threads, path \in Paths, data \in Buffers : WriteBegin(t, path, data, 0)
  \/ \E t \in Threads : WriteContainer(t)
  \/ \E t \in Threads : WriteChunkMetadata(t)
  \/ \E t \in Threads : WriteManifest(t)
  \/ GCMark
  \/ GCSweep
  \/ GCReplace
  \/ GCFinish
  \/ _background_writer
Spec == Init /\ [][Next]_vars

\* one operation at a time: create, write, read and unlink by one thread and the
\* collection cycles, none started before the one in progress has ended, on buffers
\* of one and of several chunks
SeqThreads == {1}
SeqPaths == {PathF, PathDG}
SeqBuffers == {Rep(0, 96), Rep(0, 48), <<1, 2>>}
SeqWriteOffsets == {0, 2, 48}
SeqSizes == {1, 96}
SeqOffsets == {0, 1}
NextSeq ==
  \/ gc.pc = "idle" /\ \E t \in SeqThreads, path \in SeqPaths : create(t, path)
  \/ gc.pc = "idle" /\ \E t \in SeqThreads, path \in SeqPaths : unlink(t, path)
  \/ gc.pc = "idle" /\ \E t \in SeqThreads, path \in SeqPaths, data \in SeqBuffers,
                             offset \in SeqWriteOffsets : WriteBegin(t, path, data, offset)
  \/ \E t \in SeqThreads : WriteContainer(t)
  \/ \E t \in SeqThreads : WriteChunkMetadata(t)
  \/ \E t \in SeqThreads : WriteManifest(t)
  \/ gc.pc = "idle" /\ \E t \in SeqThreads, path \in SeqPaths, size \in SeqSizes,
                             offset \in SeqOffsets : read(t, path, size, offset)
  \/ (\A t \in SeqThreads : th[t].pc = "idle") /\ GCMark
  \/ GCSweep
  \/ GCReplace
  \/ GCFinish
  \/ _background_writer
SpecSeq == Init /\ [][NextSeq]_vars

\* the same, with the store unmounted and mounted again between operations
NextRestart ==
  \/ NextSeq
  \/ __init__
SpecRestart == Init /\ [][NextRestart]_vars

\* one operation at a time, where the container append of a write may fail
NextFail ==
  \/ NextSeq
  \/ gc.pc = "idle" /\ \E t \in SeqThreads, path \in SeqPaths, data \in SeqBuffers :
                         WriteFails(t, path, data, 0)
SpecFail == Init /\ [][NextFail]_vars

\* two threads that write and unlink on a store just mounted, where no lock has
\* been made yet
InitRace ==
  /\ local_storage = [t \in Threads |-> NoLocal]
  /\ fs_file_chunks = EmptyDict
  /\ file_locks = [p \in Paths |-> -1]
  /\ file_chunks = EmptyDict
  /\ chunk_metadata = EmptyDict
  /\ containers = EmptyDict
  /\ io_queue = <<>>
  /\ file_chunks_json = AbsentFile
  /\ chunk_metadata_json = AbsentFile
  /\ temp_metadata_json = AbsentFile
  /\ root_files = {}
  /\ th = [t \in Threads |-> Idle]
  /\ gc = GCIdle
  /\ last = NoResult
  /\ nwrites = 0
  /\ ngc = 0
  /\ calls = [t \in Threads |-> <<>>]
  /\ _stop_event = FALSE
  /\ run = "test"
NextRace ==
  \/ \E t \in Threads, path \in Paths, data \in Buffers : WriteNewLock(t, path, data, 0)
  \/ \E t \in Threads : WriteBeginNewLock(t)
  \/ \E t \in Threads, path \in Paths, data \in Buffers : WriteBegin(t, path, data, 0)
  \/ \E t \in Threads : WriteContainer(t)
  \/ \E t \in Threads : WriteChunkMetadata(t)
  \/ \E t \in Threads : WriteManifest(t)
  \/ \E t \in Threads, path \in Paths : unlink(t, path)
  \/ _background_writer
SpecRace == InitRace /\ [][NextRace]_vars

\* the collector thread with interval 120, callers of trigger, stop, and one thread
\* that creates and writes so that there are containers to compact
NextGC ==
  \/ \E t \in SeqThreads, path \in SeqPaths : create(t, path)
  \/ \E t \in SeqThreads, path \in SeqPaths, data \in Buffers : WriteBegin(t, path, data, 0)
  \/ \E t \in SeqThreads : WriteContainer(t)
  \/ \E t \in SeqThreads : WriteChunkMetadata(t)
  \/ \E t \in SeqThreads : WriteManifest(t)
  \/ _background_writer
  \/ RunTest
  \/ RunCollect
  \/ RunCollected
  \/ TriggerCollect
  \/ TriggerCollected
  \/ GCSweep
  \/ GCReplace
  \/ stop
SpecGC == Init /\ [][NextGC]_vars

\* the chunker alone, called by two threads
NextChunker ==
  \/ \E t \in Threads, c \in CallInputs : ChunkerCall(t, c[1], c[2])
  \/ \E t \in Threads, k \in LoopInputs : ChunkerLoop(t, k)
SpecChunker == Init /\ [][NextChunker]_vars
(***************************************************************************)
(* The claims                                                              *)
(***************************************************************************)
\* the chunk a digest was computed from
ChunkOf(chunk_hash) == chunk_hash.sha256
\* what f.seek(offset); f.read(length) returns at an index entry; nothing when the
\* container file does not exist
StoredBytes(meta) ==
  IF meta.container \in DOMAIN containers
  THEN SeekRead(containers[meta.container], meta.offset, meta.length)
  ELSE <<>>
\* the chunks of a manifest from entry i on, joined in manifest order
RECURSIVE ContentFrom(_, _)
ContentFrom(chunks, i) ==
  IF i > Len(chunks) THEN <<>> ELSE ChunkOf(chunks[i][1]) \o ContentFrom(chunks, i + 1)
\* the last step ended a collection cycle
AfterGC == last.op = "gc"
\* the digests referenced by some manifest whose index entry names container c
LiveIn(c) == {d \in used_chunks : get_chunk_metadata(d).has /\ chunk_metadata[d].container = c}

\* C1: in every reachable state, every (digest, len) of every manifest has an entry
\* in the chunk index, the entry's container file exists, and the entry's range
\* [offset, offset + length) lies within the current size of that file.
C1_ManifestResolves ==
  \A path \in DOMAIN fs_file_chunks : \A i \in 1..Len(fs_file_chunks[path]) :
    /\ chunk_exists(fs_file_chunks[path][i][1])
    /\ chunk_metadata[fs_file_chunks[path][i][1]].container \in DOMAIN containers
    /\ chunk_metadata[fs_file_chunks[path][i][1]].offset
          + chunk_metadata[fs_file_chunks[path][i][1]].length
        <= get_container_size(chunk_metadata[fs_file_chunks[path][i][1]].container)

\* C2: after one write(path, B, 0) to a path that had no chunks, read(path, len(B), 0)
\* returns exactly B.
C2_ReadAfterWrite ==
  (last.op = "write" /\ last.offset = 0 /\ last.existing_chunks = <<>>)
    => ReadResult(last.path, Len(last.data), 0) = [status |-> "ok", data |-> last.data]

\* C3: after a collection cycle completes, for every digest referenced by a manifest
\* the index has an entry, and reading its (container, offset, length) returns the
\* bytes of that chunk.
C3_GCPreservesLiveData ==
  AfterGC =>
    \A d \in used_chunks :
      chunk_exists(d) /\ StoredBytes(chunk_metadata[d]) = ChunkOf(d)

\* C4: in every reachable state, the bytes at every index entry's (container, offset,
\* length) are the chunk of its digest, and no two entries of different digests
\* refer to overlapping ranges of one container.
C4_IndexEntriesHoldTheirChunk ==
  /\ \A d \in DOMAIN chunk_metadata : StoredBytes(chunk_metadata[d]) = ChunkOf(d)
  /\ \A d1, d2 \in DOMAIN chunk_metadata :
       (d1 # d2 /\ chunk_metadata[d1].container = chunk_metadata[d2].container)
         => \/ chunk_metadata[d1].offset + chunk_metadata[d1].length
                <= chunk_metadata[d2].offset
            \/ chunk_metadata[d2].offset + chunk_metadata[d2].length
                <= chunk_metadata[d1].offset

\* C5: once a digest has an index entry, no later step changes the entry's
\* (container, offset, length).
C5_IndexWriteOnce ==
  [][\A d \in DOMAIN chunk_metadata :
       d \in DOMAIN chunk_metadata' => chunk_metadata'[d] = chunk_metadata[d]]_vars

\* C6: after a collection cycle that ran with no operation in progress, a file ending
\* in .container exists if and only if some digest referenced by a manifest has its
\* index entry in that container.
C6_ContainersAreTheLiveOnes ==
  AfterGC =>
    \A c \in (DOMAIN containers) \cup {chunk_metadata[d].container : d \in DOMAIN chunk_metadata} :
      IsContainerFile(c) => (c \in DOMAIN containers <=> LiveIn(c) # {})

\* C7: two calls determine_chunk_size(B, start) with the same B and start return the
\* same value, whatever was called before them and whichever thread calls.
C7_ChunkerDeterministic ==
  \A t1, t2 \in Threads : \A i \in 1..Len(calls[t1]), j \in 1..Len(calls[t2]) :
    (/\ calls[t1][i].op = "call" /\ calls[t2][j].op = "call"
     /\ calls[t1][i].buffer = calls[t2][j].buffer
     /\ calls[t1][i].start = calls[t2][j].start)
      => calls[t1][i].ret = calls[t2][j].ret

\* C8: when at least 1024 bytes remain from start, determine_chunk_size returns at
\* least 1024.
C8_MinimumChunkLength ==
  \A t \in Threads : \A i \in 1..Len(calls[t]) :
    (calls[t][i].op = "call" /\ calls[t][i].len - calls[t][i].start >= 1024)
      => calls[t][i].ret >= 1024

\* C9: for 0 <= start < len(data), determine_chunk_size(data, start) returns L with
\* 1 <= L <= min(MAX_CHUNK_SIZE, len(data) - start); the chunking loop of write ends,
\* each of its pieces is 1 to MAX_CHUNK_SIZE bytes long, and the pieces joined in
\* order are data.
C9_ChunkLengthBounded ==
  \A t \in Threads : \A i \in 1..Len(calls[t]) :
    /\ calls[t][i].op = "call"
         => /\ 1 <= calls[t][i].ret
            /\ calls[t][i].ret <= Min(MAX_CHUNK_SIZE, calls[t][i].len - calls[t][i].start)
    /\ calls[t][i].op = "loop"
         => /\ calls[t][i].joined
            /\ \A k \in 1..Len(calls[t][i].sizes) :
                 1 <= calls[t][i].sizes[k] /\ calls[t][i].sizes[k] <= MAX_CHUNK_SIZE
\* a loop over a buffer longer than MAX_CHUNK_SIZE was cut at MAX_CHUNK_SIZE and went on
C9_Witness ==
  \E t \in Threads : \E i \in 1..Len(calls[t]) :
    /\ calls[t][i].op = "loop"
    /\ calls[t][i].len > MAX_CHUNK_SIZE
    /\ Len(calls[t][i].sizes) > 1
    /\ calls[t][i].sizes[1] = MAX_CHUNK_SIZE
    /\ calls[t][i].joined

\* C10: for a path with a manifest whose chunks join to content C, read(path, size,
\* offset) returns C[offset : min(offset + size, len(C))].
C10_ReadAtPosition ==
  (last.op = "read" /\ last.path \in DOMAIN fs_file_chunks)
    => /\ last.status = "ok"
       /\ last.data = Slice(ContentFrom(fs_file_chunks[last.path], 1), last.offset,
                            last.offset + last.size)

\* C11: read(path, size, offset) on a path that has no manifest (never created or
\* written, or unlinked and not created again) fails with ENOENT and leaves the
\* manifests, the chunk index and the containers as they were.
C11_ReadWithoutManifest ==
  [][(last'.op = "read" /\ last'.path \notin DOMAIN fs_file_chunks)
       => /\ last'.status = "ENOENT"
          /\ fs_file_chunks' = fs_file_chunks
          /\ file_chunks' = file_chunks
          /\ chunk_metadata' = chunk_metadata
          /\ containers' = containers]_vars
\* a read of a path that was written and then unlinked (the stored manifest list is
\* left empty, the manifest is gone) failed with ENOENT
C11_Witness ==
  /\ last.op = "read"
  /\ last.status = "ENOENT"
  /\ last.path \notin DOMAIN fs_file_chunks
  /\ last.path \in DOMAIN file_chunks
  /\ chunk_metadata # EmptyDict

\* C12: a start-up that finds chunk_metadata.json unparseable while some loaded
\* manifest has at least one entry does not succeed.
C12_StartupRefusesCorruptIndex ==
  (/\ last.op = "init"
   /\ chunk_metadata_json.exists /\ ~chunk_metadata_json.parses
   /\ \E path \in DOMAIN file_chunks : file_chunks[path] # <<>>)
    => last.status # "ok"

\* C13: for every interleaving of one write with one collection cycle, once both have
\* finished every (digest, len) of every manifest has an index entry whose byte range
\* in its container holds the bytes of the chunk.
C13_WriterGCIsolation ==
  (/\ nwrites = 1 /\ ngc = 1
   /\ gc.pc = "idle"
   /\ \A t \in Threads : th[t].pc = "idle")
    => \A path \in DOMAIN fs_file_chunks : \A i \in 1..Len(fs_file_chunks[path]) :
         /\ chunk_exists(fs_file_chunks[path][i][1])
         /\ StoredBytes(chunk_metadata[fs_file_chunks[path][i][1]])
              = ChunkOf(fs_file_chunks[path][i][1])

\* C14: after a collection cycle completes, the chunk index holds no digest that is
\* absent from every manifest: chunk_exists(d) is false for every dead digest d.
C14_GCDropsDeadDigests ==
  AfterGC => \A d \in DOMAIN chunk_metadata : d \in used_chunks

\* C15: when a collection cycle completes, chunk_metadata.json parses and holds an
\* entry for every digest that a manifest references and whose container the cycle
\* rewrote, in that container and of that length, whichever container came last.
C15_GCPersistsWholeIndex ==
  AfterGC =>
    \A d \in used_chunks :
      (chunk_exists(d) /\ chunk_metadata[d].container \in DOMAIN containers)
        => /\ chunk_metadata_json.parses
           /\ d \in DOMAIN chunk_metadata_json.value
           /\ chunk_metadata_json.value[d].container = chunk_metadata[d].container
           /\ chunk_metadata_json.value[d].length = chunk_metadata[d].length

\* the logical length of the first j chunks of a manifest
RECURSIVE CumLen(_, _)
CumLen(chunks, j) == IF j = 0 THEN 0 ELSE CumLen(chunks, j - 1) + chunks[j][2]
\* the number of leading chunks of a manifest that end at or before offset
LeadingChunks(chunks, offset) ==
  Cardinality({j \in 1..Len(chunks) : CumLen(chunks, j) <= offset})
\* manifest m is old[0..k) + N + old[k+1..] for a list N of n (digest, length)
\* entries of chunks that, joined in order, are data
ComposedOf(m, old, k, n, data) ==
  /\ n >= 0
  /\ SubSeq(m, 1, k) = SubSeq(old, 1, k)
  /\ SubSeq(m, k + n + 1, Len(m)) = SubSeq(old, k + 2, Len(old))
  /\ ContentFrom(SubSeq(m, k + 1, k + n), 1) = data
  /\ \A i \in (k + 1)..(k + n) : m[i][2] = Len(ChunkOf(m[i][1])) /\ m[i][2] >= 1

\* C16: after write(path, data, offset) on a path whose manifest was old, with k the
\* number of leading chunks of old that end at or before offset, the manifest is
\* old[0..k) + new_pieces + old[k+1..], new_pieces being the chunks of data in
\* order: one old chunk is replaced when k < len(old), none otherwise; the write
\* returns len(data).
C16_ManifestComposition ==
  last.op = "write" =>
    /\ last.size = Len(last.data)
    /\ last.path \in DOMAIN fs_file_chunks
    /\ ComposedOf(fs_file_chunks[last.path], last.existing_chunks,
                  LeadingChunks(last.existing_chunks, last.offset),
                  Len(fs_file_chunks[last.path])
                    - LeadingChunks(last.existing_chunks, last.offset)
                    - Max(0, Len(last.existing_chunks)
                               - LeadingChunks(last.existing_chunks, last.offset) - 1),
                  last.data)
    /\ file_chunks[last.path] = fs_file_chunks[last.path]
\* a write into the second of two chunks: the first is kept, the second replaced
C16_Witness ==
  /\ last.op = "write"
  /\ Len(last.existing_chunks) = 2
  /\ LeadingChunks(last.existing_chunks, last.offset) = 1
  /\ Len(fs_file_chunks[last.path]) = 2
  /\ fs_file_chunks[last.path][1] = last.existing_chunks[1]
  /\ fs_file_chunks[last.path][2] # last.existing_chunks[2]

\* the chunks of the first j staged entries, joined in staging order
StagedBytes(staged, j) ==
  Join(SubSeq([l \in 1..Len(staged) |-> ChunkOf(staged[l].hash)], 1, j))
\* the locals w of a write that has just staged its pieces, against the index and
\* the container size it found: the staged digests are the digests of the pieces
\* that the index lacks, each once, at consecutive offsets from that size, and the
\* buffer holds their chunks in that order
StagedNovelOnly(w, index, size) ==
  /\ {w.chunk_metadata[j].hash : j \in 1..Len(w.chunk_metadata)}
       = {w.new_chunks[i][1] : i \in 1..Len(w.new_chunks)} \ DOMAIN index
  /\ \A j1, j2 \in 1..Len(w.chunk_metadata) :
       w.chunk_metadata[j1].hash = w.chunk_metadata[j2].hash => j1 = j2
  /\ \A j \in 1..Len(w.chunk_metadata) :
       /\ w.chunk_metadata[j].path = w.path
       /\ w.chunk_metadata[j].size = Len(ChunkOf(w.chunk_metadata[j].hash))
       /\ w.chunk_metadata[j].offset = size + Len(StagedBytes(w.chunk_metadata, j - 1))
  /\ w.container_offset = size
  /\ w.container_buffer = StagedBytes(w.chunk_metadata, Len(w.chunk_metadata))
  /\ (w.pc = "write_manifest") <=> (w.chunk_metadata = <<>>)
\* the index after the staged entries of w were inserted
StagedInserted(w, old_index, new_index) ==
  /\ DOMAIN new_index
       = DOMAIN old_index \cup {w.chunk_metadata[j].hash : j \in 1..Len(w.chunk_metadata)}
  /\ \A d \in DOMAIN old_index :
       d \notin {w.chunk_metadata[j].hash : j \in 1..Len(w.chunk_metadata)}
         => new_index[d] = old_index[d]
  /\ \A j \in 1..Len(w.chunk_metadata) :
       new_index[w.chunk_metadata[j].hash]
         = Meta(ContainerName(w.path), w.chunk_metadata[j].offset, w.chunk_metadata[j].size)

\* C17: a write stages, and appends to the container of its path, the chunks of
\* exactly those pieces whose digest is neither in the index nor staged earlier in
\* the same write, back-to-back from the size the container had when the write
\* began; the container and the index change by that append and those entries and
\* by nothing else, and not at all when every piece is already indexed.
C17_WriteSideDedup ==
  [][\A t \in SeqThreads :
       /\ (th[t].pc = "idle" /\ th'[t].pc # "idle")
            => /\ containers' = containers
               /\ chunk_metadata' = chunk_metadata
               /\ StagedNovelOnly(th'[t], chunk_metadata,
                                  get_container_size(ContainerName(th'[t].path)))
       /\ (th[t].pc = "write_container" /\ th'[t].pc # "write_container")
            => /\ chunk_metadata' = chunk_metadata
               /\ DOMAIN containers' = DOMAIN containers \cup {ContainerName(th[t].path)}
               /\ \A c \in DOMAIN containers :
                    containers'[c] = IF c = ContainerName(th[t].path)
                                     THEN containers[c] \o th[t].container_buffer
                                     ELSE containers[c]
               /\ ContainerName(th[t].path) \notin DOMAIN containers
                    => containers'[ContainerName(th[t].path)] = th[t].container_buffer
       /\ (th[t].pc = "write_chunk_metadata" /\ th'[t].pc # "write_chunk_metadata")
            => /\ containers' = containers
               /\ StagedInserted(th[t], chunk_metadata, chunk_metadata')
       /\ (th[t].pc = "write_manifest" /\ th'[t].pc # "write_manifest")
            => /\ containers' = containers
               /\ chunk_metadata' = chunk_metadata]_vars
\* a write of two equal pieces staged one of them and has appended it once
C17_Witness ==
  \E t \in SeqThreads :
    /\ th[t].pc = "write_chunk_metadata"
    /\ Len(th[t].new_chunks) = 2
    /\ Len(th[t].chunk_metadata) = 1
    /\ th[t].new_chunks[1][1] = th[t].new_chunks[2][1]
    /\ get_container_size(ContainerName(th[t].path))
         = th[t].container_offset + Len(th[t].container_buffer)

\* C18: within a write, a digest enters the index only when its bytes are in its
\* container, and a manifest comes to hold a digest only when the index has it; a
\* write whose container append fails leaves the index and the manifest of its
\* path as they were before the write.
C18_PublicationOrder ==
  [][/\ \A d \in DOMAIN chunk_metadata' :
          d \notin DOMAIN chunk_metadata
            => /\ chunk_metadata'[d].container \in DOMAIN containers
               /\ SeekRead(containers[chunk_metadata'[d].container],
                           chunk_metadata'[d].offset, chunk_metadata'[d].length)
                    = ChunkOf(d)
     /\ \A path \in DOMAIN fs_file_chunks' :
          (path \notin DOMAIN fs_file_chunks
             \/ fs_file_chunks'[path] # fs_file_chunks[path])
            => \A i \in 1..Len(fs_file_chunks'[path]) :
                 fs_file_chunks'[path][i][1] \in DOMAIN chunk_metadata
     /\ (last'.op = "write" /\ last'.status = "IOError")
          => /\ chunk_metadata' = chunk_metadata
             /\ fs_file_chunks' = fs_file_chunks
             /\ file_chunks' = file_chunks]_vars

\* the steps of write made under the lock of the path
InWrite == {"write_container", "write_chunk_metadata", "write_manifest"}

\* C19: two writes issued concurrently on one path never interleave: at no time are
\* two threads between the staging and the manifest update of a write on the same
\* path.
C19_PerPathSerialization ==
  \A t1, t2 \in Threads :
    (t1 # t2 /\ th[t1].pc \in InWrite /\ th[t2].pc \in InWrite)
      => th[t1].path # th[t2].path

\* C20: different paths have different container names, so two writes in progress
\* on two different paths never hold staged chunks for the same offset of the same
\* container file.
C20_DistinctPathsDistinctContainers ==
  \A t1, t2 \in Threads :
    (/\ th[t1].pc = "write_container" /\ th[t2].pc = "write_container"
     /\ th[t1].path # th[t2].path)
      => /\ ContainerName(th[t1].path) # ContainerName(th[t2].path)
         /\ ~(/\ ContainerName(th[t1].path) = ContainerName(th[t2].path)
               /\ th[t1].container_offset = th[t2].container_offset)

\* C21: in every reachable state chunk_metadata.json is absent or parses as a chunk
\* index; it is never an empty or partly written file, also after a collection
\* cycle that finds no live chunk.
C21_IndexFileParses ==
  chunk_metadata_json.exists => chunk_metadata_json.parses

\* no dump is queued and no write, unlink or collection cycle is in progress
Quiescent ==
  /\ io_queue = <<>>
  /\ \A t \in Threads : th[t].pc = "idle"
  /\ gc.pc = "idle"

\* C22: whenever the dump queue is empty and no write, unlink or collection cycle is
\* in progress, file_chunks.json holds the in-memory manifest map and
\* chunk_metadata.json holds the in-memory chunk index, also after collection cycles.
C22_DiskEqualsMemoryWhenQuiescent ==
  Quiescent => /\ _load_file_chunks = file_chunks
               /\ _load_chunk_metadata = chunk_metadata

\* C23: once stop() has set the stop event, the thread of run starts no further
\* collection cycle and begins compacting no further container.
C23_NoCycleAfterStop ==
  [][_stop_event
       => /\ ~(run # "collect" /\ run' = "collect")
          /\ ~(run = "collect" /\ gc.pc = "sweep" /\ gc'.todo # gc.todo)]_vars

\* the scan of determine_chunk_size(data, start) stopped before the byte at offset
\* upto: its rolling state is the one right after consuming data[upto - 1]
ScanUpTo(ls, data, start, upto) ==
  LET window_fill == Min(WINDOW_SIZE, Len(data) - start)
  IN ScanFrom(FillLoop([ls |-> _init_thread_local(ls), i |-> 0, ret |-> -1],
                       data, start, window_fill, window_fill),
              data, start, upto, start + Max(window_fill, MIN_CHUNK_SIZE))
\* the call of determine_chunk_size that thread t has just returned from
CallReturned(t) ==
  /\ Len(calls'[t]) = Len(calls[t]) + 1
  /\ calls'[t][Len(calls'[t])].op = "call"
Unforced(c) == c.ret < Min(MAX_CHUNK_SIZE, c.len - c.start)
BoundaryAtLastByte(ls, c) ==
  /\ TARGET_MASK_Clear(ScanUpTo(ls, ChunkerBuffer(c.buffer), c.start, c.start + c.ret).ls.hash)
  /\ ScanUpTo(ls, ChunkerBuffer(c.buffer), c.start, c.start + c.ret - 1).ret = c.ret - 1

\* C24: when determine_chunk_size(data, start) returns L without a forced cut, the
\* rolling hash right after the byte at offset start + L - 1, the last byte of the
\* chunk, has its TARGET_MASK bits clear, and no earlier tested position had.
C24_BoundaryPosition ==
  [][\A t \in Threads :
       (CallReturned(t) /\ Unforced(calls'[t][Len(calls'[t])]))
         => BoundaryAtLastByte(local_storage[t], calls'[t][Len(calls'[t])])]_vars
====
